---- MODULE Spec2Model ----
(***************************************************************************)
(* A model of src/model.py: the Sampling layer, the ConvolutionalVAE       *)
(* constructor (layer shapes, normalized beta, metric trackers), the loss  *)
(* computation shared by train_step and test_step, and the two steps.      *)
(*                                                                         *)
(* Numbers are exact rationals [n, d] in lowest terms.  exp, log and the   *)
(* sigmoid are tabulated on the few arguments the model reaches, rounded   *)
(* to eighths (quarters for the sigmoid).  Every Dense / convolution       *)
(* stack is reduced to one scalar weight acting element-wise, so that a    *)
(* network's output is a function of its weight and its input.             *)
(***************************************************************************)
EXTENDS Integers, Sequences, FiniteSets, TLC

VARIABLES
    params,     \* weight of every variable the model object tracks
    trackers,   \* the four keras.metrics.Mean objects: total and count
    b_norm,     \* self.b_norm
    ret,        \* dictionary returned by the last step
    call,       \* the last step: its kind, and an evaluation's batch and noise
    inst,       \* the four scalar losses computed inside the last step
    hist,       \* per train step since the trackers were created or reset:
                \* the losses it recorded and the number of optimizer
                \* updates its parameters had received
    nTrain,     \* train_step calls so far
    nUpdates,   \* optimizer.apply_gradients calls so far
    cfg,        \* the configuration object c
    pc,         \* position of the constructor in building the layer graph
    i,          \* index of the filter loop the constructor is in
    enc_shape,  \* shape of x while the encoder is built
    dec_shape   \* shape of d while the decoder is built

vars == <<params, trackers, b_norm, ret, call, inst, hist, nTrain, nUpdates,
          cfg, pc, i, enc_shape, dec_shape>>

stepVars == <<params, trackers, ret, call, inst, hist, nTrain, nUpdates>>
buildVars == <<cfg, pc, i, enc_shape, dec_shape>>

----------------------------------------------------------------------------
(* Bounds *)

MaxBatch == 2
MaxTrainSteps == 2
MaxDim == 4
MaxFilters == 2

----------------------------------------------------------------------------
(* Exact rational arithmetic *)

RECURSIVE GCD(_, _)
GCD(a, b) == IF b = 0 THEN a ELSE GCD(b, a % b)

Abs(x) == IF x < 0 THEN -x ELSE x

R(n, d) ==
    LET g == GCD(Abs(n), d)
    IN  IF n = 0 THEN [n |-> 0, d |-> 1] ELSE [n |-> n \div g, d |-> d \div g]

Zero == R(0, 1)
One == R(1, 1)
Half == R(1, 2)

RAdd(a, b) == R(a.n * b.d + b.n * a.d, a.d * b.d)
RNeg(a) == [n |-> -a.n, d |-> a.d]
RSub(a, b) == RAdd(a, RNeg(b))
RMul(a, b) == R(a.n * b.n, a.d * b.d)
RDivInt(a, k) == R(a.n, a.d * k)
RLe(a, b) == a.n * b.d <= b.n * a.d
RLt(a, b) == a.n * b.d < b.n * a.d

RECURSIVE RSum(_)
RSum(s) == IF s = <<>> THEN Zero ELSE RAdd(Head(s), RSum(Tail(s)))

\* tf.reduce_mean over a non-empty vector
RMean(s) == RDivInt(RSum(s), Len(s))

----------------------------------------------------------------------------
(* Configuration objects *)

\* default of the constructor's gamma argument
Gamma == 100

\* config.Config, imported as c: the configuration the steps run under
c ==
    [latent_dim |-> 2, input_shape |-> <<1, 1, 1>>, filters |-> <<1>>,
     kernels |-> 3, strides |-> 1, last_conv_dim |-> 1, b_norm |-> 1]

\* the configurations the constructor's layer graph is explored under
Configs ==
    {[latent_dim |-> l, input_shape |-> <<h, w, ch>>, filters |-> f,
      kernels |-> 3, strides |-> s, last_conv_dim |-> d, b_norm |-> 1] :
        l \in {1, 2}, h \in 1..MaxDim, w \in 1..MaxDim, ch \in {1, 3},
        f \in UNION {[1..n -> {1, 2}] : n \in 1..MaxFilters},
        s \in {1, 2}, d \in {1, 2}}

----------------------------------------------------------------------------
(* Tabulated scalar functions, rounded to eighths *)

\* tf.exp on the arguments the model reaches
Exp(x) ==
    CASE x = R(-1, 1) -> R(3, 8)
      [] x = R(-1, 2) -> R(5, 8)
      [] x = Zero     -> One
      [] x = R(1, 2)  -> R(13, 8)
      [] x = R(1, 1)  -> R(11, 4)

\* -log(p) on the values the sigmoid table produces
NegLog(p) ==
    CASE p = R(1, 4) -> R(11, 8)
      [] p = R(1, 2) -> R(3, 4)
      [] p = R(3, 4) -> R(1, 4)

\* Activation('sigmoid'), quantised to quarters
Sigmoid(a) ==
    IF RLe(a, R(-1, 2)) THEN R(1, 4)
    ELSE IF RLt(a, R(1, 2)) THEN R(1, 2)
    ELSE R(3, 4)

----------------------------------------------------------------------------
(* Tensors: a batch is a sequence of examples, an example a sequence of    *)
(* rationals.                                                              *)

\* a function on 1..n as the tuple of its values
Tuple(f) == SubSeq(f, 1, Len(f))

\* tf.reduce_sum(t, axis=1): one value per example
ReduceSumAxis1(t) == Tuple([b \in 1..Len(t) |-> RSum(t[b])])

\* tf.reduce_sum(t) with no axis: every element of every example
ReduceSumAll(t) == RSum(ReduceSumAxis1(t))

----------------------------------------------------------------------------
(* Sampling.call *)

Sampling(z_mean, z_log_var, epsilon) ==
    Tuple([b \in 1..Len(z_mean) |->
        Tuple([j \in 1..Len(z_mean[b]) |->
            LET a == Exp(RMul(Half, z_log_var[b][j]))
            IN  RAdd(z_mean[b][j], RMul(a, R(epsilon[b][j], 1)))])])

----------------------------------------------------------------------------
(* The three sub-networks *)

\* Dense(units) on flattened inputs: every output unit is w times the sum
\* of the inputs
Dense(w, units, x) ==
    Tuple([b \in 1..Len(x) |->
        Tuple([j \in 1..units |-> RMul(R(w, 1), RSum(x[b]))])])

\* a convolution stack that keeps the shape: w times each element
Conv(w, x) ==
    Tuple([b \in 1..Len(x) |->
        Tuple([j \in 1..Len(x[b]) |-> RMul(R(w, 1), x[b][j])])])

\* the two projections of the flattened features
z_mean_dense(p, data) == Dense(p.z_mean, c.latent_dim, data)
z_logvar_dense(p, data) == Dense(p.z_logvar, c.latent_dim, data)

\* encoder returning the sample in place of the mean
encoder_sample_as_mean(p, data, epsilon) ==
    LET z == Sampling(z_mean_dense(p, data), z_logvar_dense(p, data), epsilon)
    IN  <<z, z_mean_dense(p, data), z>>

\* self.encoder: its three outputs
encoder(p, data, epsilon) ==
    LET z == Sampling(z_mean_dense(p, data), z_logvar_dense(p, data), epsilon)
    IN  <<z_mean_dense(p, data), z_mean_dense(p, data), z>>

\* self.decoder: sigmoid of the transposed-convolution stack
decoder(p, z) ==
    LET pixels == c.input_shape[1] * c.input_shape[2]
        d == Dense(p.decoder, pixels, z)
    IN  Tuple([b \in 1..Len(z) |->
            Tuple([j \in 1..pixels |-> Sigmoid(d[b][j])])])

vgg_conv_block_ixs == <<1, 4, 7, 11, 15>>

\* self.vgg_model: one feature map per selected layer
vgg_model(p, image) ==
    Tuple([k \in 1..Len(vgg_conv_block_ixs) |-> Conv(p.vgg, image)])

----------------------------------------------------------------------------
(* Loss computation, the same statements in test_step and train_step *)

\* keras.losses.binary_crossentropy on one channel: a value per pixel
binary_crossentropy(y_true, y_pred) ==
    Tuple([b \in 1..Len(y_true) |->
        Tuple([j \in 1..Len(y_true[b]) |->
            RAdd(RMul(y_true[b][j], NegLog(y_pred[b][j])),
                 RMul(RSub(One, y_true[b][j]),
                      NegLog(RSub(One, y_pred[b][j]))))])])

\* tf.pow(a - b, 2) on flattened feature maps
SquaredDifference(a, b) ==
    Tuple([e \in 1..Len(a) |->
        Tuple([j \in 1..Len(a[e]) |->
            RMul(RSub(a[e][j], b[e][j]), RSub(a[e][j], b[e][j]))])])

\* tf.reduce_mean(tf.reduce_sum(...)): the sum has no axis and is a scalar,
\* whose mean is itself
feature_loss(feature_map_data, feature_map_reconstruction) ==
    RMean(<<ReduceSumAll(SquaredDifference(feature_map_data,
                                           feature_map_reconstruction))>>)

\* the KL terms with the sign of the leading factor lost
kl_terms_positive_half(z_mean, z_log_var) ==
    Tuple([b \in 1..Len(z_mean) |->
        Tuple([j \in 1..Len(z_mean[b]) |->
            RMul(R(1, 2),
                 RSub(RSub(RAdd(One, z_log_var[b][j]),
                           RMul(z_mean[b][j], z_mean[b][j])),
                      Exp(z_log_var[b][j])))])])

\* -0.5 * (1 + z_log_var - tf.square(z_mean) - tf.exp(z_log_var))
kl_terms(z_mean, z_log_var) ==
    Tuple([b \in 1..Len(z_mean) |->
        Tuple([j \in 1..Len(z_mean[b]) |->
            RMul(R(-1, 2),
                 RSub(RSub(RAdd(One, z_log_var[b][j]),
                           RMul(z_mean[b][j], z_mean[b][j])),
                      Exp(z_log_var[b][j])))])])

kl_loss_fn(z_mean, z_log_var) ==
    RMean(ReduceSumAxis1(kl_terms(z_mean, z_log_var)))

total_loss_fn(reconstruction_loss, kl_loss, perception_loss) ==
    RAdd(RAdd(RMul(Half, reconstruction_loss), RMul(Half, perception_loss)),
         kl_loss)

\* lines 106-119 and 134-148: the four losses of one forward pass
Losses(p, z_mean, z_log_var, data, reconstruction) ==
    LET feature_maps_data == vgg_model(p, data)
        feature_maps_reconstruction == vgg_model(p, reconstruction)
        feature_losses ==
            Tuple([k \in 1..Len(feature_maps_data) |->
                feature_loss(feature_maps_data[k],
                             feature_maps_reconstruction[k])])
        perception_loss == RSum(feature_losses)
        reconstruction_loss ==
            RMean(ReduceSumAxis1(binary_crossentropy(data, reconstruction)))
        kl_loss == kl_loss_fn(z_mean, z_log_var)
    IN  [total_loss |->
            total_loss_fn(reconstruction_loss, kl_loss, perception_loss),
         reconstruction_loss |-> reconstruction_loss,
         kl_loss |-> kl_loss,
         perception_loss |-> perception_loss]

\* lines 104-119 and 131-148: encoder, decoder, losses
Forward(p, data, epsilon) ==
    LET out == encoder(p, data, epsilon)
        z_mean == out[1]
        z_log_var == out[2]
        z == out[3]
        reconstruction == decoder(p, z)
    IN  [reconstruction |-> reconstruction,
         losses |-> Losses(p, z_mean, z_log_var, data, reconstruction)]

----------------------------------------------------------------------------
(* Metric trackers *)

\* the names of the four keras.metrics.Mean objects the constructor creates
TrackerNames == {"total_loss", "reconstruction_loss", "kl_loss", "p_loss"}

\* a metrics property that leaves the perceptual tracker out
metrics_without_p_loss == {"total_loss", "reconstruction_loss", "kl_loss"}

\* the metrics property
metrics == {"total_loss", "reconstruction_loss", "kl_loss", "p_loss"}

NewMean == [total |-> Zero, count |-> 0]

update_state(m, value) ==
    [total |-> RAdd(m.total, value), count |-> m.count + 1]

result(m) == IF m.count = 0 THEN Zero ELSE RDivInt(m.total, m.count)

----------------------------------------------------------------------------
(* Variables of the model object *)

Variables == {"z_mean", "z_logvar", "decoder", "vgg"}

\* self.trainable_variables: the trainable weights of every layer held as an
\* attribute (encoder, decoder, vgg_model); nothing sets trainable = False
trainable_variables == {"z_mean", "z_logvar", "decoder", "vgg"}

\* the weights a variable can hold
Domain(v) == IF v = "vgg" THEN {1, 2} ELSE {-1, 1}

Weights == {f \in [Variables -> {-1, 1, 2}] : \A v \in Variables : f[v] \in Domain(v)}

\* initializers, and the pretrained weights VGG16 loads
InitialParams == [z_mean |-> 1, z_logvar |-> -1, decoder |-> 1, vgg |-> 1]

\* weights an optimizer update can produce
Updates ==
    {[z_mean |-> -1, z_logvar |-> 1, decoder |-> -1, vgg |-> 2],
     [z_mean |-> 1, z_logvar |-> 1, decoder |-> 1, vgg |-> 2]}

\* optimizer.apply_gradients(zip(grads, variables)) leaving the weights new
apply_gradients(p, variables, new) ==
    [v \in Variables |-> IF v \in variables THEN new[v] ELSE p[v]]

----------------------------------------------------------------------------
(* Inputs of the steps *)

Images == {<<Zero>>, <<One>>}

Batches == UNION {{Tuple(f) : f \in [1..n -> Images]} : n \in 1..MaxBatch}

\* tf.keras.backend.random_normal(shape=(batch, dim))
Noise(batch, dim) ==
    {Tuple(f) : f \in [1..batch -> {Tuple(g) : g \in [1..dim -> {-1, 1}]}]}

Inputs ==
    UNION {{<<data, epsilon>> : epsilon \in Noise(Len(data), c.latent_dim)} :
            data \in Batches}

\* the batches and noise of the multi-step runs
RunInputs ==
    {u \in Inputs :
        /\ u[1] \in {<<<<One>>>>, <<<<One>>, <<Zero>>>>}
        /\ \E e \in {-1, 1} : \A b \in 1..Len(u[2]) :
              \A j \in 1..Len(u[2][b]) : u[2][b][j] = e}

\* Forward, evaluated once per weights and input
ForwardTable ==
    [p \in Weights |->
        [data \in Batches |->
            [epsilon \in Noise(Len(data), c.latent_dim) |->
                Forward(p, data, epsilon)] @@ <<>>] @@ <<>>] @@ <<>>

----------------------------------------------------------------------------
(* ConvolutionalVAE.__init__ : layer shapes, b_norm, trackers *)

RECURSIVE Prod(_)
Prod(s) == IF s = <<>> THEN 1 ELSE Head(s) * Prod(Tail(s))

Reversed(s) == [k \in 1..Len(s) |-> s[Len(s) + 1 - k]]

CeilDiv(a, b) == (a + b - 1) \div b

\* Conv2D(filters, strides=c.strides, padding='same'), BatchNormalization,
\* leaky_relu
conv_block(input, filter) ==
    <<CeilDiv(input[1], cfg.strides), CeilDiv(input[2], cfg.strides), filter>>

\* Conv2DTranspose(filters, strides, padding='same')
Conv2DTranspose(input, filter, strides) ==
    <<input[1] * strides, input[2] * strides, filter>>

\* a decoder block whose transposed convolution has stride 1
deconv_block_unit_stride(input, filter, k) == Conv2DTranspose(input, filter, 1)

\* Conv2DTranspose(strides=c.strides), BatchNormalization, leaky_relu
deconv_block(input, filter, k) == Conv2DTranspose(input, filter, cfg.strides)

NewTrackers == [m \in TrackerNames |-> NewMean]

NoCall ==
    [op |-> "none", data |-> <<>>, params |-> InitialParams,
     reconstruction |-> <<>>]

NoLosses ==
    [total_loss |-> Zero, reconstruction_loss |-> Zero, kl_loss |-> Zero,
     perception_loss |-> Zero]

NoReturn == [k \in {} |-> Zero]

InitWith(config) ==
    /\ cfg = config
    /\ pc = "start"
    /\ i = 0
    /\ enc_shape = <<>>
    /\ dec_shape = <<>>
    /\ b_norm = Zero
    /\ params = InitialParams
    /\ trackers = NewTrackers
    /\ ret = NoReturn
    /\ call = NoCall
    /\ inst = NoLosses
    /\ hist = <<>>
    /\ nTrain = 0
    /\ nUpdates = 0

Init == InitWith(c)

InitShape == \E config \in Configs : InitWith(config)

\* lines 27-32: normalized beta, encoder input
Begin ==
    /\ pc = "start"
    /\ b_norm' = R(Gamma * cfg.b_norm * cfg.latent_dim, Prod(cfg.input_shape))
    /\ enc_shape' = cfg.input_shape
    /\ i' = 0
    /\ pc' = "encoder"
    /\ UNCHANGED <<cfg, dec_shape, stepVars>>

\* lines 33-37: one encoder block per filter
EncoderBlock ==
    /\ pc = "encoder"
    /\ i < Len(cfg.filters)
    /\ enc_shape' = conv_block(enc_shape, cfg.filters[i + 1])
    /\ i' = i + 1
    /\ UNCHANGED <<cfg, pc, dec_shape, b_norm, stepVars>>

\* lines 39-46: Flatten and the latent projections
EncoderHead ==
    /\ pc = "encoder"
    /\ i = Len(cfg.filters)
    /\ enc_shape' = <<cfg.latent_dim>>
    /\ pc' = "decoder_stem"
    /\ UNCHANGED <<cfg, i, dec_shape, b_norm, stepVars>>

\* lines 48-50: Dense and Reshape
DecoderStem ==
    /\ pc = "decoder_stem"
    /\ dec_shape' = <<cfg.last_conv_dim, cfg.last_conv_dim,
                      cfg.filters[Len(cfg.filters)]>>
    /\ i' = 0
    /\ pc' = "decoder"
    /\ UNCHANGED <<cfg, enc_shape, b_norm, stepVars>>

\* lines 52-53: one decoder block per filter, reversed
DecoderBlock ==
    /\ pc = "decoder"
    /\ i < Len(cfg.filters)
    /\ dec_shape' = deconv_block(dec_shape, Reversed(cfg.filters)[i + 1], i)
    /\ i' = i + 1
    /\ UNCHANGED <<cfg, pc, enc_shape, b_norm, stepVars>>

\* lines 55-58: final transposed convolution and sigmoid
DecoderOutput ==
    /\ pc = "decoder"
    /\ i = Len(cfg.filters)
    /\ dec_shape' = Conv2DTranspose(dec_shape, cfg.input_shape[3], 1)
    /\ pc' = "vgg"
    /\ UNCHANGED <<cfg, i, enc_shape, b_norm, stepVars>>

\* lines 60-69: feature extractor and metric trackers
Finish ==
    /\ pc = "vgg"
    /\ params' = [params EXCEPT !.vgg = InitialParams.vgg]
    /\ trackers' = NewTrackers
    /\ pc' = "done"
    /\ UNCHANGED <<cfg, i, enc_shape, dec_shape, b_norm, ret, call, inst,
                   hist, nTrain, nUpdates>>

Build ==
    \/ Begin
    \/ EncoderBlock
    \/ EncoderHead
    \/ DecoderStem
    \/ DecoderBlock
    \/ DecoderOutput
    \/ Finish

----------------------------------------------------------------------------
(* Steps *)

\* lines 121-126
test_return(l) ==
    [loss |-> l.total_loss,
     reconstruction_loss |-> l.reconstruction_loss,
     kl_loss |-> l.kl_loss,
     perception_loss |-> l.perception_loss]

\* an evaluation step that feeds the trackers and returns their means
test_step_tracking(data, epsilon) ==
    /\ pc = "done"
    /\ LET f == ForwardTable[params][data][epsilon]
       IN  /\ inst' = f.losses
           /\ trackers' =
                 [trackers EXCEPT
                    !.total_loss = update_state(@, f.losses.total_loss),
                    !.reconstruction_loss =
                        update_state(@, f.losses.reconstruction_loss),
                    !.kl_loss = update_state(@, f.losses.kl_loss),
                    !.p_loss = update_state(@, f.losses.perception_loss)]
           /\ ret' = [loss |-> result(trackers'.total_loss),
                      reconstruction_loss |->
                          result(trackers'.reconstruction_loss),
                      kl_loss |-> result(trackers'.kl_loss),
                      perception_loss |-> result(trackers'.p_loss)]
           /\ call' = [op |-> "eval", data |-> data, params |-> params,
                       reconstruction |-> f.reconstruction]
    /\ UNCHANGED <<params, hist, nTrain, nUpdates, b_norm, buildVars>>

test_step(data, epsilon) ==
    /\ pc = "done"
    /\ LET f == ForwardTable[params][data][epsilon]
       IN  /\ inst' = f.losses
           /\ ret' = test_return(f.losses)
           /\ call' = [op |-> "eval", data |-> data, params |-> params,
                       reconstruction |-> f.reconstruction]
    /\ UNCHANGED <<params, trackers, hist, nTrain, nUpdates, b_norm, buildVars>>

\* tracker updates with the KL and reconstruction values exchanged
update_trackers_exchanged(t, l) ==
    [t EXCEPT !.total_loss = update_state(@, l.total_loss),
              !.reconstruction_loss = update_state(@, l.kl_loss),
              !.kl_loss = update_state(@, l.reconstruction_loss),
              !.p_loss = update_state(@, l.perception_loss)]

\* lines 152-155
update_trackers(t, l) ==
    [t EXCEPT !.total_loss = update_state(@, l.total_loss),
              !.reconstruction_loss = update_state(@, l.reconstruction_loss),
              !.kl_loss = update_state(@, l.kl_loss),
              !.p_loss = update_state(@, l.perception_loss)]

\* lines 157-162
train_return(t) ==
    [loss |-> result(t.total_loss),
     reconstruction_loss |-> result(t.reconstruction_loss),
     kl_loss |-> result(t.kl_loss),
     perception_loss |-> result(t.p_loss)]

train_step(data, epsilon, new) ==
    /\ pc = "done"
    /\ LET f == ForwardTable[params][data][epsilon]
       IN  /\ inst' = f.losses
           /\ call' = [op |-> "train", data |-> data, params |-> params,
                       reconstruction |-> f.reconstruction]
           /\ hist' = Append(hist, [step |-> nTrain + 1, updates |-> nUpdates,
                                    losses |-> f.losses])
           /\ params' = apply_gradients(params, trainable_variables, new)
           /\ nUpdates' = nUpdates + 1
           /\ trackers' = update_trackers(trackers, f.losses)
           /\ ret' = train_return(trackers')
    /\ nTrain' = nTrain + 1
    /\ UNCHANGED <<b_norm, buildVars>>

\* the training loop's reset of every tracker the metrics property lists
reset_metrics ==
    /\ pc = "done"
    /\ hist # <<>>
    /\ trackers' = [m \in DOMAIN trackers |->
                        IF m \in metrics THEN NewMean ELSE trackers[m]]
    /\ hist' = <<>>
    /\ call' = [NoCall EXCEPT !.op = "reset", !.params = params]
    /\ UNCHANGED <<params, ret, inst, nTrain, nUpdates, b_norm, buildVars>>

\* runs of several steps, on RunInputs
Evaluate == \E u \in RunInputs : test_step(u[1], u[2])

Train ==
    /\ nTrain < MaxTrainSteps
    /\ \E u \in RunInputs : \E new \in Updates : train_step(u[1], u[2], new)

\* single steps, on every input
EvaluateAny == \E u \in Inputs : test_step(u[1], u[2])

TrainOnce ==
    /\ nTrain < 1
    /\ \E u \in Inputs : \E new \in Updates : train_step(u[1], u[2], new)

Next == Build \/ Evaluate \/ Train \/ reset_metrics

NextLoss == Build \/ EvaluateAny \/ TrainOnce \/ reset_metrics

Spec == Init /\ [][Next]_vars

SpecLoss == Init /\ [][NextLoss]_vars

SpecShape == InitShape /\ [][Build]_vars

----------------------------------------------------------------------------
(* Properties *)

Stepped == call.op \in {"train", "eval"}

\* outputs 1 and 2 of the encoder on the last step's batch (neither reads
\* the noise)
CallNoise == [b \in 1..Len(call.data) |-> [j \in 1..c.latent_dim |-> 1]]
CallEncoded == encoder(call.params, call.data, CallNoise)

\* the losses of the last step's batch, from its recorded reconstruction
CallLosses ==
    Losses(call.params, CallEncoded[1], CallEncoded[2], call.data,
           call.reconstruction)

HistSum(field) == RSum([k \in 1..Len(hist) |-> hist[k].losses[field]])

\* C1: in every train or evaluation step the total loss is
\* 0.5 * reconstruction_loss + 0.5 * perception_loss + b_norm * kl_loss,
\* b_norm being the normalized beta the constructor computed.
C1_TotalLossAppliesBNorm ==
    Stepped =>
        inst.total_loss =
            RAdd(RAdd(RMul(Half, inst.reconstruction_loss),
                      RMul(Half, inst.perception_loss)),
                 RMul(b_norm, inst.kl_loss))

\* C2: the feature extractor's weights stay the weights loaded at
\* construction, whatever steps have run.
C2_FeatureExtractorFrozen == params.vgg = InitialParams.vgg

\* C3: after N train steps since the trackers were created or reset, each
\* value the N-th train step returns is the unweighted average of the N
\* per-step values of that loss.
C3_RunningMean ==
    call.op = "train" =>
        /\ Len(hist) >= 1
        /\ RMul(ret.loss, R(Len(hist), 1)) = HistSum("total_loss")
        /\ RMul(ret.reconstruction_loss, R(Len(hist), 1)) =
              HistSum("reconstruction_loss")
        /\ RMul(ret.kl_loss, R(Len(hist), 1)) = HistSum("kl_loss")
        /\ RMul(ret.perception_loss, R(Len(hist), 1)) =
              HistSum("perception_loss")

\* C3 witness: a second train step whose own losses differ from the first's,
\* so that the mean differs from the step's value
C3_Witness ==
    /\ call.op = "train"
    /\ Len(hist) = 2
    /\ hist[1].losses.total_loss # hist[2].losses.total_loss
    /\ hist[1].losses.kl_loss # hist[2].losses.kl_loss
    /\ ret.loss # inst.total_loss

\* C4: an evaluation step leaves the parameters and the four trackers as
\* they were and returns the losses of its own batch.
C4_EvaluationMutatesNothing ==
    /\ [][call'.op = "eval" => params' = params /\ trackers' = trackers]_vars
    /\ [](call.op = "eval" =>
            /\ ret.loss = CallLosses.total_loss
            /\ ret.reconstruction_loss = CallLosses.reconstruction_loss
            /\ ret.kl_loss = CallLosses.kl_loss
            /\ ret.perception_loss = CallLosses.perception_loss)

\* C4 witness: an evaluation step after train steps, whose returned loss is
\* not the tracker's mean
C4_Witness ==
    /\ call.op = "eval"
    /\ Len(hist) >= 1
    /\ params # InitialParams
    /\ ret.loss # result(trackers.total_loss)
    /\ ret.kl_loss # result(trackers.kl_loss)

NonNegative(d) == \A k \in DOMAIN d : RLe(Zero, d[k])

SameEvaluation ==
    /\ call.op = "eval"
    /\ call'.op = "eval"
    /\ call'.data = call.data
    /\ call'.params = call.params

\* C6 as stated: two evaluation steps on the same batch with the same
\* parameters return equal reconstruction, KL and perceptual losses whatever
\* noise each draws.
C6_Original ==
    [][SameEvaluation =>
          /\ ret'.reconstruction_loss = ret.reconstruction_loss
          /\ ret'.kl_loss = ret.kl_loss
          /\ ret'.perception_loss = ret.perception_loss]_vars

\* C6 amended: two such evaluation steps return equal KL loss whatever noise
\* each draws; their reconstruction and perceptual losses are equal when the
\* two sampled latents decode to the same reconstruction.
C6_Amended ==
    [][SameEvaluation =>
          /\ ret'.kl_loss = ret.kl_loss
          /\ call'.reconstruction = call.reconstruction =>
                /\ ret'.reconstruction_loss = ret.reconstruction_loss
                /\ ret'.perception_loss = ret.perception_loss]_vars

\* C6 witness: an evaluation step on a batch whose losses another draw of
\* the noise would change, with a non-zero KL loss
C6_Witness ==
    /\ call.op = "eval"
    /\ ret.kl_loss # Zero
    /\ \E epsilon \in Noise(Len(call.data), c.latent_dim) :
          LET f == ForwardTable[params][call.data][epsilon]
          IN  /\ f.losses.reconstruction_loss # ret.reconstruction_loss
              /\ f.losses.perception_loss # ret.perception_loss
              /\ f.losses.kl_loss = ret.kl_loss

\* C7: the KL loss of a step is the closed form on the encoder's mean
\* projection and its log-variance projection.
C7_KLUsesLogVariance ==
    Stepped =>
        inst.kl_loss =
            kl_loss_fn(z_mean_dense(call.params, call.data),
                       z_logvar_dense(call.params, call.data))

\* the per-scale value of C8: the squared differences summed per example,
\* then averaged over the batch
PerScaleBatchMean(feature_map_data, feature_map_reconstruction) ==
    RMean(ReduceSumAxis1(SquaredDifference(feature_map_data,
                                           feature_map_reconstruction)))

\* C8: the perceptual loss is the sum over the five feature-map pairs of the
\* per-example sum of squared differences averaged over the batch.
C8_PerceptualBatchMean ==
    Stepped =>
        inst.perception_loss =
            RSum([k \in 1..Len(vgg_conv_block_ixs) |->
                    PerScaleBatchMean(
                        vgg_model(call.params, call.data)[k],
                        vgg_model(call.params, call.reconstruction)[k])])

RECURSIVE Pow(_, _)
Pow(b, e) == IF e = 0 THEN 1 ELSE b * Pow(b, e - 1)

Built == pc \in {"vgg", "done"}

C10_StepOrder ==
    /\ nUpdates = nTrain
    /\ \A m \in TrackerNames : trackers[m].count = Len(hist)
    /\ \A k \in 1..Len(hist) : hist[k].updates = hist[k].step - 1
    /\ call.op = "train" =>
          /\ hist[Len(hist)].step = nTrain
          /\ hist[Len(hist)].losses = CallLosses

\* C10 witness: an evaluation step after two train steps with a reset
\* between them
C10_Witness ==
    /\ call.op = "eval"
    /\ nTrain = 2
    /\ Len(hist) = 1
    /\ hist[1].updates = 1

====
